---- MODULE Spec2Model ----
(***************************************************************************)
(* Model of the ResNet graph builder of models/resnet/resnet.hpp and       *)
(* models/resnet/resnet_impl.hpp.                                          *)
(*                                                                         *)
(* Three specifications share the variables:                               *)
(*   Spec           the constructor ResNet(inputShape, includeTop,         *)
(*                  preTrained, numClasses), one action per statement      *)
(*                  group that appends a layer;                            *)
(*   SpecMakeLayer  one call of MakeLayer on an object whose stem has been *)
(*                  built, stepping through BasicBlock / BottleNeck;       *)
(*   SpecConv       one call of ConvOutSize, ConvolutionBlock3x3 or        *)
(*                  ConvolutionBlock1x1 with arguments from bounded sets.  *)
(*                                                                         *)
(* Identifiers are those of the source, spelled as in the source: the      *)
(* member is inputWidth, the name assigned in the two ConvolutionBlock     *)
(* functions is inputwidth, the Sequential declared in BasicBlock is       *)
(* sequentialBlock and the one it fills is seqentialBlock.  The calls      *)
(* basicBlock(...) and bottleneck(...) of MakeLayer have only BasicBlock   *)
(* and BottleNeck to refer to and are modelled as calls of those.          *)
(***************************************************************************)
EXTENDS Integers, Sequences, FiniteSets, TLC

VARIABLES
  pc,              \* position in the constructor or in the called function
  ResNetVersion,   \* template parameter
  inputShape,      \* constructor argument <<channels, width, height>>
  includeTop,      \* constructor argument
  numClasses,      \* member
  inputChannel,    \* member
  inputWidth,      \* member: tracked width
  inputHeight,     \* member: tracked height
  inputwidth,      \* the name assigned at resnet.hpp:86 and :106
  numBlockArray,   \* set by the version dispatch
  builderBlock,    \* set by the version dispatch
  resNet,          \* the FFN: sequence of layers added so far
  sequentialBlock, \* Sequential declared at resnet_impl.hpp:128 / resnet.hpp:134
  seqentialBlock,  \* Sequential filled by BasicBlock (resnet.hpp:135-142)
  resBlock,        \* AddMerge of BasicBlock: its children
  raised,          \* Log::Fatal has thrown
  ml,              \* frame of MakeLayer: arguments and locals
  bb,              \* frame of BasicBlock: arguments
  cv               \* frame of the function called under SpecConv

vars == <<pc, ResNetVersion, inputShape, includeTop, numClasses, inputChannel,
          inputWidth, inputHeight, inputwidth, numBlockArray, builderBlock,
          resNet, sequentialBlock, seqentialBlock, resBlock, raised, ml, bb, cv>>

-----------------------------------------------------------------------------
(* Bounds of the input sets. *)
MaxSize == 8
MaxKernel == 4
MaxStride == 3
MaxPad == 2
MaxBlocks == 3

(* size_t is modelled as an unsigned word of SizeBits bits: wide enough for
   every size the model's inputs produce, narrow enough for TLC's integers. *)
SizeBits == 16
SizeMod == 2^SizeBits

Versions == {18, 34, 50, 101, 152, 200, 0}
Widths == {0, 1, 7, 32, 224}
Heights == {0, 1, 32, 224}
ClassCounts == {10, 1000}
StageSizes == {2, 8, 56}
OutSizes == {64, 128, 256, 512}

-----------------------------------------------------------------------------
(* Layers.  Every layer is a record of the same shape. *)
Layer(type, args, sub) == [type |-> type, args |-> args, sub |-> sub]

Convolution(inSize, outSize, kW, kH, sW, sH, pW, pH, w, h) ==
  Layer("Convolution", <<inSize, outSize, kW, kH, sW, sH, pW, pH, w, h>>, <<>>)
BatchNorm(size) == Layer("BatchNorm", <<size>>, <<>>)
ReLULayer == Layer("ReLULayer", <<>>, <<>>)
Padding(l, r, t, b) == Layer("Padding", <<l, r, t, b>>, <<>>)
MaxPooling(kW, kH, sW, sH) == Layer("MaxPooling", <<kW, kH, sW, sH>>, <<>>)
IdentityLayer == Layer("IdentityLayer", <<>>, <<>>)
Sequential(sub) == Layer("Sequential", <<>>, sub)
AddMerge(sub) == Layer("AddMerge", <<1, 1>>, sub)

NoFrame == [fn |-> "none"]

-----------------------------------------------------------------------------
(* resnet.hpp:186-192: return std::floor(size + 2 * padding - k) / s + 1.
   The argument of std::floor is unsigned arithmetic; std::floor makes it a
   double, the division by s and the + 1 are floating point, and the return
   converts to size_t, which truncates: a difference d >= 0 gives
   d \div s + 1.  A difference below 0 wraps to just under the modulus, which
   the conversion to double rounds to the modulus itself; divided by s >= 2
   that is the modulus \div s (the + 1 is below the double's resolution);
   divided by 1 it is beyond the range of size_t, the conversion back is
   undefined, and any size_t may result. *)
ConvOutSize(size, k, s, padding) ==
  LET d == size + 2 * padding - k
      q == IF d >= 0 THEN (d \div s) + 1 ELSE SizeMod \div s
  IN  IF q < SizeMod THEN {q} ELSE 0 .. (SizeMod - 1)

-----------------------------------------------------------------------------
(* The constructor, resnet_impl.hpp:54-160. *)

(* Config with the row of version 101 copied from version 50. *)
ConfigRowCopied(version) ==
  IF version = 18
    THEN [numBlockArray |-> <<2, 2, 2, 2>>, builderBlock |-> "basicblock", fatal |-> FALSE]
  ELSE IF version = 34
    THEN [numBlockArray |-> <<3, 4, 6, 3>>, builderBlock |-> "basicblock", fatal |-> FALSE]
  ELSE IF version \in {50, 101}
    THEN [numBlockArray |-> <<3, 4, 6, 3>>, builderBlock |-> "bottleneck", fatal |-> FALSE]
  ELSE IF version = 152
    THEN [numBlockArray |-> <<3, 8, 36, 3>>, builderBlock |-> "bottleneck", fatal |-> FALSE]
  ELSE [numBlockArray |-> <<>>, builderBlock |-> "", fatal |-> TRUE]

(* resnet_impl.hpp:65-94: the version dispatch. *)
Config(version) ==
  IF version = 18
    THEN [numBlockArray |-> <<2, 2, 2, 2>>, builderBlock |-> "basicblock", fatal |-> FALSE]
  ELSE IF version = 34
    THEN [numBlockArray |-> <<3, 4, 6, 3>>, builderBlock |-> "basicblock", fatal |-> FALSE]
  ELSE IF version = 50
    THEN [numBlockArray |-> <<3, 4, 6, 3>>, builderBlock |-> "bottleneck", fatal |-> FALSE]
  ELSE IF version = 101
    THEN [numBlockArray |-> <<3, 4, 23, 3>>, builderBlock |-> "bottleneck", fatal |-> FALSE]
  ELSE IF version = 152
    THEN [numBlockArray |-> <<3, 8, 36, 3>>, builderBlock |-> "bottleneck", fatal |-> FALSE]
  ELSE [numBlockArray |-> <<>>, builderBlock |-> "", fatal |-> TRUE]

(* resnet_impl.hpp:54-62: the member initialisers. *)
Init ==
  /\ pc = "Resolve"
  /\ ResNetVersion \in Versions
  /\ inputShape \in {<<3, w, h>> : w \in Widths, h \in Heights}
  /\ includeTop \in BOOLEAN
  /\ numClasses \in ClassCounts
  /\ inputChannel = inputShape[1]
  /\ inputWidth = inputShape[2]
  /\ inputHeight = inputShape[3]
  /\ inputwidth = 0
  /\ numBlockArray = <<>>
  /\ builderBlock = ""
  /\ resNet = <<>>
  /\ sequentialBlock = <<>>
  /\ seqentialBlock = <<>>
  /\ resBlock = <<>>
  /\ raised = FALSE
  /\ ml = NoFrame
  /\ bb = NoFrame
  /\ cv = NoFrame

(* resnet_impl.hpp:65-94.  mlpack's Log::Fatal throws std::runtime_error
   when the line is ended, so the constructor is left at line 93. *)
Resolve ==
  /\ pc = "Resolve"
  /\ numBlockArray' = Config(ResNetVersion).numBlockArray
  /\ builderBlock' = Config(ResNetVersion).builderBlock
  /\ raised' = Config(ResNetVersion).fatal
  /\ pc' = IF Config(ResNetVersion).fatal THEN "fatal" ELSE "StemConv"
  /\ UNCHANGED <<ResNetVersion, inputShape, includeTop, numClasses, inputChannel,
                 inputWidth, inputHeight, inputwidth, resNet, sequentialBlock,
                 seqentialBlock, resBlock, ml, bb, cv>>

(* resnet_impl.hpp:96-104. *)
StemConv ==
  /\ pc = "StemConv"
  /\ resNet' = Append(resNet, Convolution(3, 64, 7, 7, 2, 2, 3, 3, inputWidth, inputHeight))
  /\ inputWidth' \in ConvOutSize(inputWidth, 7, 2, 3)
  /\ inputHeight' \in ConvOutSize(inputHeight, 7, 2, 3)
  /\ pc' = "StemBatchNorm"
  /\ UNCHANGED <<ResNetVersion, inputShape, includeTop, numClasses, inputChannel,
                 inputwidth, numBlockArray, builderBlock, sequentialBlock,
                 seqentialBlock, resBlock, raised, ml, bb, cv>>

(* resnet_impl.hpp:106-107. *)
StemBatchNorm ==
  /\ pc = "StemBatchNorm"
  /\ resNet' = Append(resNet, BatchNorm(64))
  /\ pc' = "StemReLU"
  /\ UNCHANGED <<ResNetVersion, inputShape, includeTop, numClasses, inputChannel,
                 inputWidth, inputHeight, inputwidth, numBlockArray, builderBlock,
                 sequentialBlock, seqentialBlock, resBlock, raised, ml, bb, cv>>

(* resnet_impl.hpp:109-110. *)
StemReLU ==
  /\ pc = "StemReLU"
  /\ resNet' = Append(resNet, ReLULayer)
  /\ pc' = "StemPadding"
  /\ UNCHANGED <<ResNetVersion, inputShape, includeTop, numClasses, inputChannel,
                 inputWidth, inputHeight, inputwidth, numBlockArray, builderBlock,
                 sequentialBlock, seqentialBlock, resBlock, raised, ml, bb, cv>>

(* Padded with the update of the tracked size left out. *)
PaddedNotTracked(size) == size

(* resnet_impl.hpp:115-116: the size after Padding<>(1, 1, 1, 1). *)
Padded(size) == (size + 2) % SizeMod

(* resnet_impl.hpp:112-118. *)
StemPadding ==
  /\ pc = "StemPadding"
  /\ resNet' = Append(resNet, Padding(1, 1, 1, 1))
  /\ inputWidth' = Padded(inputWidth)
  /\ inputHeight' = Padded(inputHeight)
  /\ pc' = "StemMaxPool"
  /\ UNCHANGED <<ResNetVersion, inputShape, includeTop, numClasses, inputChannel,
                 inputwidth, numBlockArray, builderBlock, sequentialBlock,
                 seqentialBlock, resBlock, raised, ml, bb, cv>>

(* resnet_impl.hpp:120-126. *)
StemMaxPool ==
  /\ pc = "StemMaxPool"
  /\ resNet' = Append(resNet, MaxPooling(3, 3, 2, 2))
  /\ inputWidth' \in ConvOutSize(inputWidth, 3, 2, 0)
  /\ inputHeight' \in ConvOutSize(inputHeight, 3, 2, 0)
  /\ pc' = "StemTail"
  /\ UNCHANGED <<ResNetVersion, inputShape, includeTop, numClasses, inputChannel,
                 inputwidth, numBlockArray, builderBlock, sequentialBlock,
                 seqentialBlock, resBlock, raised, ml, bb, cv>>

(* resnet_impl.hpp:128-160: a Sequential of two convolutions and an
   IdentityLayer; the MakeLayer calls and the includeTop branch are comments. *)
StemTail ==
  /\ pc = "StemTail"
  /\ sequentialBlock' =
       <<Convolution(64, 64, 3, 3, 1, 1, 1, 1, inputWidth, inputHeight),
         Convolution(64, 64, 3, 3, 1, 1, 1, 1, inputWidth, inputHeight)>>
  /\ resNet' = resNet \o <<Sequential(sequentialBlock'), IdentityLayer>>
  /\ pc' = "done"
  /\ UNCHANGED <<ResNetVersion, inputShape, includeTop, numClasses, inputChannel,
                 inputWidth, inputHeight, inputwidth, numBlockArray, builderBlock,
                 seqentialBlock, resBlock, raised, ml, bb, cv>>

Next ==
  \/ Resolve
  \/ StemConv
  \/ StemBatchNorm
  \/ StemReLU
  \/ StemPadding
  \/ StemMaxPool
  \/ StemTail

Spec == Init /\ [][Next]_vars

-----------------------------------------------------------------------------
(* The private builders of resnet.hpp.  Each returns the set of its outcomes:
   the layer container it was given, with what it appended, and the values it
   assigns. *)

(* resnet.hpp:70-88. *)
ConvolutionBlock3x3(baseLayer, inSize, outSize, kernelWidth, kernelHeight, strideWidth, strideHeight, padW, padH) ==
  { [baseLayer |-> Append(baseLayer,
                     Convolution(inSize, outSize, kernelWidth, kernelHeight,
                                 strideWidth, strideHeight, padW, padH,
                                 inputWidth, inputHeight)),
     inputwidth |-> w,
     inputHeight |-> h] :
      w \in ConvOutSize(inputWidth, kernelWidth, strideWidth, padW),
      h \in ConvOutSize(inputHeight, kernelHeight, strideHeight, padH) }

(* resnet.hpp:90-108. *)
ConvolutionBlock1x1(baseLayer, inSize, outSize, kernelWidth, kernelHeight, strideWidth, strideHeight, padW, padH) ==
  { [baseLayer |-> Append(baseLayer,
                     Convolution(inSize, outSize, kernelWidth, kernelHeight,
                                 strideWidth, strideHeight, padW, padH,
                                 inputWidth, inputHeight)),
     inputwidth |-> w,
     inputHeight |-> h] :
      w \in ConvOutSize(inputWidth, kernelWidth, strideWidth, padW),
      h \in ConvOutSize(inputHeight, kernelHeight, strideHeight, padH) }

(* resnet.hpp:110-124: the convolution and the BatchNorm are both added to
   the AddMerge it is given. *)
DownSample(downSample, inSize, outSize, kernelWidth, kernelHeight, strideWidth, strideHeight, padW, padH) ==
  { [r EXCEPT !.baseLayer = Append(@, BatchNorm(outSize))] :
      r \in ConvolutionBlock1x1(downSample, inSize, outSize, kernelWidth,
                                kernelHeight, strideWidth, strideHeight,
                                padW, padH) }

basicBlockExpansion == 1
bottleNeckExpansion == 4

(* resnet.hpp:168 and :178: the condition that sets downSample. *)
DownSampleCondition(stride, inSize, expansion) ==
  stride # 1 \/ inSize # inSize * expansion

-----------------------------------------------------------------------------
(* One call MakeLayer(block, outSize, numBlocks, stride), resnet.hpp:158-185,
   on an object whose stem is built: 64 channels, resNet taken from here. *)
InitMakeLayer ==
  /\ pc = "MakeLayer"
  /\ ResNetVersion \in {18, 50}
  /\ inputShape \in {<<64, w, h>> : w \in StageSizes, h \in StageSizes}
  /\ includeTop = TRUE
  /\ numClasses = 1000
  /\ inputChannel = 3
  /\ inputWidth = inputShape[2]
  /\ inputHeight = inputShape[3]
  /\ inputwidth = 0
  /\ numBlockArray = Config(ResNetVersion).numBlockArray
  /\ builderBlock = Config(ResNetVersion).builderBlock
  /\ resNet = <<>>
  /\ sequentialBlock = <<>>
  /\ seqentialBlock = <<>>
  /\ resBlock = <<>>
  /\ raised = FALSE
  /\ \E o \in OutSizes, n \in 1 .. MaxBlocks, st \in 1 .. 2 :
       ml = [fn |-> "MakeLayer", block |-> builderBlock, outSize |-> o,
             numBlocks |-> n, stride |-> st, inSize |-> 0,
             downSample |-> FALSE, i |-> 0]
  /\ bb = NoFrame
  /\ cv = NoFrame

(* The call basicBlock(inSize, outSize, downSample) or bottleneck(...) that
   MakeLayer makes for the block kind. *)
CallBlock(inSize, outSize, downSample) ==
  /\ bb' = IF ml.block = "basicblock"
             THEN [fn |-> "BasicBlock", inSize |-> inSize, outSize |-> outSize,
                   downSample |-> downSample, kernelWidth |-> 1,
                   kernelHeight |-> 1]
             ELSE [fn |-> "BottleNeck"]
  /\ pc' = IF ml.block = "basicblock" THEN "BasicBlockConv1" ELSE "BottleNeck"

MakeLayerVars ==
  <<ResNetVersion, inputShape, includeTop, numClasses, inputChannel,
    numBlockArray, builderBlock, sequentialBlock, raised, cv>>

(* resnet.hpp:163-170 and :176-180: the first block of the stage. *)
MakeLayerFirst ==
  /\ pc = "MakeLayer"
  /\ LET inSize == 64
         expansion == IF ml.block = "basicblock" THEN basicBlockExpansion
                      ELSE bottleNeckExpansion
         downSample == DownSampleCondition(ml.stride, inSize, expansion)
     IN  /\ ml' = [ml EXCEPT !.inSize = inSize, !.downSample = downSample]
         /\ CallBlock(inSize, ml.outSize, downSample)
  /\ UNCHANGED <<inputWidth, inputHeight, inputwidth, resNet, seqentialBlock,
                 resBlock>>
  /\ UNCHANGED MakeLayerVars

(* resnet.hpp:171-173 and :181-183: after the first block, inSize is
   multiplied by the expansion and the loop starts at i = 1. *)
MakeLayerFor ==
  /\ pc = "MakeLayerLoop"
  /\ ml.i = 0
  /\ LET expansion == IF ml.block = "basicblock" THEN basicBlockExpansion
                      ELSE bottleNeckExpansion
         inSize == ml.inSize * expansion
     IN  /\ ml' = [ml EXCEPT !.inSize = inSize, !.i = 1]
         /\ IF 1 # ml.numBlocks
              THEN CallBlock(inSize, ml.outSize, FALSE)
              ELSE pc' = "done" /\ UNCHANGED bb
  /\ UNCHANGED <<inputWidth, inputHeight, inputwidth, resNet, seqentialBlock,
                 resBlock>>
  /\ UNCHANGED MakeLayerVars

(* resnet.hpp:172-173 and :182-183: ++i, the test, the next block. *)
MakeLayerNext ==
  /\ pc = "MakeLayerLoop"
  /\ ml.i >= 1
  /\ ml' = [ml EXCEPT !.i = ml.i + 1]
  /\ IF ml.i + 1 # ml.numBlocks
       THEN CallBlock(ml.inSize, ml.outSize, FALSE)
       ELSE pc' = "done" /\ UNCHANGED bb
  /\ UNCHANGED <<inputWidth, inputHeight, inputwidth, resNet, seqentialBlock,
                 resBlock>>
  /\ UNCHANGED MakeLayerVars

(* resnet.hpp:132-138: the containers, the first convolution (kernel
   kernelWidth x kernelHeight, stride 1, padding 1), BatchNorm, ReLU.
   seqentialBlock is taken to be the Sequential created at line 134. *)
BasicBlockConv1 ==
  /\ pc = "BasicBlockConv1"
  /\ \E r \in ConvolutionBlock3x3(<<>>, bb.inSize, bb.outSize, bb.kernelWidth,
                                  bb.kernelHeight, 1, 1, 1, 1) :
       /\ seqentialBlock' = r.baseLayer \o <<BatchNorm(bb.outSize), ReLULayer>>
       /\ inputwidth' = r.inputwidth
       /\ inputHeight' = r.inputHeight
  /\ resBlock' = <<>>
  /\ pc' = "BasicBlockConv2"
  /\ UNCHANGED <<inputWidth, resNet, ml, bb>>
  /\ UNCHANGED MakeLayerVars

(* resnet.hpp:139-142: the second convolution, BatchNorm, and the main path
   becomes the first child of the AddMerge. *)
BasicBlockConv2 ==
  /\ pc = "BasicBlockConv2"
  /\ \E r \in ConvolutionBlock3x3(seqentialBlock, bb.outSize, bb.outSize,
                                  3, 3, 1, 1, 1, 1) :
       /\ seqentialBlock' = Append(r.baseLayer, BatchNorm(bb.outSize))
       /\ inputwidth' = r.inputwidth
       /\ inputHeight' = r.inputHeight
  /\ resBlock' = Append(resBlock, Sequential(seqentialBlock'))
  /\ pc' = "BasicBlockShortcut"
  /\ UNCHANGED <<inputWidth, resNet, ml, bb>>
  /\ UNCHANGED MakeLayerVars

(* resnet.hpp:144-147. *)
BasicBlockShortcut ==
  /\ pc = "BasicBlockShortcut"
  /\ IF bb.downSample
       THEN \E r \in DownSample(resBlock, bb.inSize, bb.outSize, 1, 1, 1, 1, 0, 0) :
              /\ resBlock' = r.baseLayer
              /\ inputwidth' = r.inputwidth
              /\ inputHeight' = r.inputHeight
       ELSE /\ resBlock' = Append(resBlock, IdentityLayer)
            /\ UNCHANGED <<inputwidth, inputHeight>>
  /\ pc' = "BasicBlockFinish"
  /\ UNCHANGED <<inputWidth, resNet, seqentialBlock, ml, bb>>
  /\ UNCHANGED MakeLayerVars

(* resnet.hpp:149-152. *)
BasicBlockFinish ==
  /\ pc = "BasicBlockFinish"
  /\ resNet' = Append(resNet, Sequential(<<AddMerge(resBlock), ReLULayer>>))
  /\ pc' = "MakeLayerLoop"
  /\ UNCHANGED <<inputWidth, inputHeight, inputwidth, seqentialBlock, resBlock,
                 ml, bb>>
  /\ UNCHANGED MakeLayerVars

(* resnet.hpp:154-156: the body is empty. *)
BottleNeck ==
  /\ pc = "BottleNeck"
  /\ pc' = "MakeLayerLoop"
  /\ UNCHANGED <<inputWidth, inputHeight, inputwidth, resNet, seqentialBlock,
                 resBlock, ml, bb>>
  /\ UNCHANGED MakeLayerVars

NextMakeLayer ==
  \/ MakeLayerFirst
  \/ MakeLayerFor
  \/ MakeLayerNext
  \/ BasicBlockConv1
  \/ BasicBlockConv2
  \/ BasicBlockShortcut
  \/ BasicBlockFinish
  \/ BottleNeck

SpecMakeLayer == InitMakeLayer /\ [][NextMakeLayer]_vars

-----------------------------------------------------------------------------
(* One call of ConvOutSize, ConvolutionBlock3x3 or ConvolutionBlock1x1 with
   arguments from bounded sets.  The convolution blocks are called on an
   object tracking inputShape, with a kernel that fits the padded input. *)
SizeArgs == (0 .. MaxSize) \cup {224}
KernelArgs == (1 .. MaxKernel) \cup {7}
StrideArgs == 1 .. MaxStride
PadArgs == (0 .. MaxPad) \cup {3}

InitConv ==
  /\ ResNetVersion = 18
  /\ includeTop = TRUE
  /\ numClasses = 1000
  /\ inputChannel = 3
  /\ inputwidth = 0
  /\ numBlockArray = Config(ResNetVersion).numBlockArray
  /\ builderBlock = Config(ResNetVersion).builderBlock
  /\ resNet = <<>>
  /\ sequentialBlock = <<>>
  /\ seqentialBlock = <<>>
  /\ resBlock = <<>>
  /\ raised = FALSE
  /\ ml = NoFrame
  /\ bb = NoFrame
  /\ \/ /\ pc = "ConvOutSize"
        /\ inputShape = <<64, 56, 56>>
        /\ \E size \in SizeArgs, k \in KernelArgs, st \in StrideArgs,
              padding \in PadArgs :
             cv = [fn |-> "ConvOutSize", size |-> size, k |-> k, s |-> st,
                   padding |-> padding, result |-> 0]
     \/ /\ pc \in {"ConvolutionBlock3x3", "ConvolutionBlock1x1"}
        /\ inputShape \in {<<64, w, h>> : w \in StageSizes, h \in StageSizes}
        /\ \E kW \in 1 .. MaxKernel, kH \in {1, 3}, sW \in StrideArgs,
              sH \in 1 .. 2, pW \in 0 .. MaxPad, pH \in 0 .. 1 :
             /\ inputShape[2] + 2 * pW >= kW
             /\ inputShape[3] + 2 * pH >= kH
             /\ cv = [fn |-> pc, inSize |-> 64, outSize |-> 128,
                      kernelWidth |-> kW, kernelHeight |-> kH,
                      strideWidth |-> sW, strideHeight |-> sH,
                      padW |-> pW, padH |-> pH]
  /\ inputWidth = inputShape[2]
  /\ inputHeight = inputShape[3]

ConvVars ==
  <<ResNetVersion, inputShape, includeTop, numClasses, inputChannel,
    numBlockArray, builderBlock, resNet, sequentialBlock, resBlock, raised,
    ml, bb>>

(* resnet.hpp:186-192, called with the arguments of cv. *)
CallConvOutSize ==
  /\ pc = "ConvOutSize"
  /\ \E r \in ConvOutSize(cv.size, cv.k, cv.s, cv.padding) :
       cv' = [cv EXCEPT !.result = r]
  /\ pc' = "returned"
  /\ UNCHANGED <<inputWidth, inputHeight, inputwidth, seqentialBlock>>
  /\ UNCHANGED ConvVars

(* resnet.hpp:70-88, called on an empty Sequential. *)
CallConvolutionBlock3x3 ==
  /\ pc = "ConvolutionBlock3x3"
  /\ \E r \in ConvolutionBlock3x3(seqentialBlock, cv.inSize, cv.outSize,
                                  cv.kernelWidth, cv.kernelHeight,
                                  cv.strideWidth, cv.strideHeight,
                                  cv.padW, cv.padH) :
       /\ seqentialBlock' = r.baseLayer
       /\ inputwidth' = r.inputwidth
       /\ inputHeight' = r.inputHeight
  /\ pc' = "returned"
  /\ UNCHANGED <<inputWidth, cv>>
  /\ UNCHANGED ConvVars

(* resnet.hpp:90-108, called on an empty Sequential. *)
CallConvolutionBlock1x1 ==
  /\ pc = "ConvolutionBlock1x1"
  /\ \E r \in ConvolutionBlock1x1(seqentialBlock, cv.inSize, cv.outSize,
                                  cv.kernelWidth, cv.kernelHeight,
                                  cv.strideWidth, cv.strideHeight,
                                  cv.padW, cv.padH) :
       /\ seqentialBlock' = r.baseLayer
       /\ inputwidth' = r.inputwidth
       /\ inputHeight' = r.inputHeight
  /\ pc' = "returned"
  /\ UNCHANGED <<inputWidth, cv>>
  /\ UNCHANGED ConvVars

NextConv ==
  \/ CallConvOutSize
  \/ CallConvolutionBlock3x3
  \/ CallConvolutionBlock1x1

SpecConv == InitConv /\ [][NextConv]_vars

-----------------------------------------------------------------------------
(* Properties of the constructor, checked under Spec. *)

Supported == {18, 34, 50, 101, 152}
Expansion == IF builderBlock = "bottleneck" THEN 4 ELSE 1
AfterStem == SubSeq(resNet, 6, Len(resNet))

(* C1: for every supported depth the constructor resolves exactly the
   table's row: 18 -> (2,2,2,2) Basic, 34 -> (3,4,6,3) Basic,
   50 -> (3,4,6,3) Bottleneck, 101 -> (3,4,23,3) Bottleneck,
   152 -> (3,8,36,3) Bottleneck. *)
C1_ConfigTable ==
  (pc # "Resolve" /\ ResNetVersion \in Supported) =>
    /\ numBlockArray =
         CASE ResNetVersion = 18 -> <<2, 2, 2, 2>>
           [] ResNetVersion = 34 -> <<3, 4, 6, 3>>
           [] ResNetVersion = 50 -> <<3, 4, 6, 3>>
           [] ResNetVersion = 101 -> <<3, 4, 23, 3>>
           [] ResNetVersion = 152 -> <<3, 8, 36, 3>>
    /\ builderBlock =
         (IF ResNetVersion \in {18, 34} THEN "basicblock" ELSE "bottleneck")
    /\ ~raised

C1_Witness ==
  pc = "done" /\ ResNetVersion = 101 /\ numBlockArray = <<3, 4, 23, 3>>
    /\ builderBlock = "bottleneck"

(* C2: for an invalid configuration (unsupported depth, or a non-positive
   input width or height) no layer is ever added, and the construction ends
   with the error raised. *)
C2_InvalidConfigBuildsNothing ==
  (ResNetVersion \notin Supported \/ inputShape[2] <= 0 \/ inputShape[3] <= 0) =>
    /\ resNet = <<>>
    /\ pc # "done"

(* C3: for every supported depth the layers after the stem are the blocks of
   four stages, numBlockArray[i] blocks with output channels 64, 128, 256,
   512 times the expansion and first-block strides 1, 2, 2, 2, followed, if
   and only if includeTop, by a 1x1 global pooling and a linear layer from
   512 * expansion to numClasses. *)
C3_FourStagesThenHead ==
  (pc = "done" /\ ResNetVersion \in Supported
     /\ inputShape[2] >= 1 /\ inputShape[3] >= 1) =>
    LET head == IF includeTop
                  THEN <<Layer("AdaptiveMeanPooling", <<1, 1>>, <<>>),
                         Layer("Linear", <<512 * Expansion, numClasses>>, <<>>)>>
                  ELSE <<>>
        nBlocks == numBlockArray[1] + numBlockArray[2] + numBlockArray[3]
                     + numBlockArray[4]
        stageOf(i) == IF i <= numBlockArray[1] THEN 1
                      ELSE IF i <= numBlockArray[1] + numBlockArray[2] THEN 2
                      ELSE IF i <= nBlocks - numBlockArray[4] THEN 3 ELSE 4
        firstOf(n) == IF n = 1 THEN 1
                      ELSE IF n = 2 THEN numBlockArray[1] + 1
                      ELSE IF n = 3 THEN numBlockArray[1] + numBlockArray[2] + 1
                      ELSE nBlocks - numBlockArray[4] + 1
        channels(n) == <<64, 128, 256, 512>>[n] * Expansion
        strides(n) == <<1, 2, 2, 2>>[n]
        main(b) == b.sub[1].sub[1].sub
    IN  /\ Len(AfterStem) = nBlocks + Len(head)
        /\ SubSeq(AfterStem, nBlocks + 1, Len(AfterStem)) = head
        /\ \A i \in 1 .. nBlocks :
             /\ AfterStem[i].type = "Sequential"
             /\ Len(AfterStem[i].sub) = 2
             /\ AfterStem[i].sub[1].type = "AddMerge"
             /\ Len(AfterStem[i].sub[1].sub) >= 1
             /\ Len(main(AfterStem[i])) >= 1
             /\ main(AfterStem[i])[Len(main(AfterStem[i]))] =
                  BatchNorm(channels(stageOf(i)))
        /\ \A n \in 1 .. 4 :
             LET first == main(AfterStem[firstOf(n)])[1]
             IN  first.type = "Convolution" /\ first.args[5] = strides(n)

(* C4: the stem appends, in this order, the 7x7 stride-2 padding-3
   convolution 3 -> 64, a normalization, an activation, a padding of 1 and a
   3x3 stride-2 max pooling; the tracked width and height follow each
   size-changing layer, and a 224x224 input is 56x56 when the stem is done. *)
StemLayers ==
  <<Convolution(3, 64, 7, 7, 2, 2, 3, 3, inputShape[2], inputShape[3]),
    BatchNorm(64), ReLULayer, Padding(1, 1, 1, 1), MaxPooling(3, 3, 2, 2)>>

StemDone ==
  CASE pc = "StemBatchNorm" -> 1
    [] pc = "StemReLU" -> 2
    [] pc = "StemPadding" -> 3
    [] pc = "StemMaxPool" -> 4
    [] pc \in {"StemTail", "done"} -> 5
    [] OTHER -> 0

TrackedAfter(n, size) ==
  LET conv == (size - 1) \div 2 + 1
      padded == conv + 2
      pooled == (padded - 3) \div 2 + 1
  IN  IF n = 0 THEN size ELSE IF n <= 3 THEN conv ELSE IF n = 4 THEN padded ELSE pooled

C4_Stem ==
  /\ Len(resNet) >= StemDone
  /\ SubSeq(resNet, 1, StemDone) = SubSeq(StemLayers, 1, StemDone)
  /\ pc \in {"StemConv", "StemBatchNorm", "StemReLU", "StemPadding", "StemMaxPool"}
       => Len(resNet) = StemDone
  /\ inputShape[2] >= 1 => inputWidth = TrackedAfter(StemDone, inputShape[2])
  /\ inputShape[3] >= 1 => inputHeight = TrackedAfter(StemDone, inputShape[3])
  /\ (StemDone = 5 /\ inputShape[2] = 224) => inputWidth = 56
  /\ (StemDone = 5 /\ inputShape[3] = 224) => inputHeight = 56

C4_Witness ==
  /\ pc = "StemTail"
  /\ inputShape = <<3, 224, 224>>
  /\ Len(resNet) = 5
  /\ resNet[5] = MaxPooling(3, 3, 2, 2)
  /\ inputWidth = 56
  /\ inputHeight = 56

-----------------------------------------------------------------------------
(* Reference geometry of a layer, independent of the tracked state: the
   spatial size a layer produces from an input of the given size along the
   width (dim = 1) or the height (dim = 2). *)
LayerOut(layer, size, dim) ==
  CASE layer.type = "Convolution" ->
         (size + 2 * layer.args[6 + dim] - layer.args[2 + dim])
           \div layer.args[4 + dim] + 1
    [] layer.type = "MaxPooling" ->
         (size - layer.args[dim]) \div layer.args[2 + dim] + 1
    [] layer.type = "Padding" -> size + layer.args[2 * dim - 1] + layer.args[2 * dim]
    [] OTHER -> size

RECURSIVE TrueSize(_, _, _)
TrueSize(layers, size, dim) ==
  IF layers = <<>> THEN size
  ELSE IF Head(layers).type = "Sequential"
    THEN TrueSize(Tail(layers), TrueSize(Head(layers).sub, size, dim), dim)
  ELSE TrueSize(Tail(layers), LayerOut(Head(layers), size, dim), dim)

-----------------------------------------------------------------------------
(* Properties of ConvOutSize and the convolution blocks, under SpecConv. *)

(* C5: ConvOutSize(size, k, s, padding) returns
   floor((size + 2 * padding - k) / s) + 1 for all sizes, kernels, paddings
   and strides >= 1 of the input sets (stated for the calls whose result the
   language defines, so that what refutes it is a result every build gives). *)
C5_ConvOutSizeFormula ==
  (pc = "returned" /\ cv.fn = "ConvOutSize"
     /\ Cardinality(ConvOutSize(cv.size, cv.k, cv.s, cv.padding)) = 1) =>
    cv.result = ((cv.size + 2 * cv.padding - cv.k) \div cv.s) + 1

(* C8: the tracked width and height equal the true output size of the graph
   built so far, and every convolution is constructed with the tracked size
   in effect just before it: after each step of the stem, and after a call of
   ConvolutionBlock3x3 or ConvolutionBlock1x1 with any kernel, stride and
   padding. *)
C8_TrackedIsTrueSize ==
  /\ (pc \in {"StemBatchNorm", "StemReLU", "StemPadding", "StemMaxPool",
              "StemTail", "done"} /\ cv = NoFrame /\ ml = NoFrame
        /\ inputShape[2] >= 1 /\ inputShape[3] >= 1) =>
       /\ inputWidth = TrueSize(resNet, inputShape[2], 1)
       /\ inputHeight = TrueSize(resNet, inputShape[3], 2)
  /\ (pc = "returned" /\ cv.fn \in {"ConvolutionBlock3x3", "ConvolutionBlock1x1"}) =>
       /\ seqentialBlock[1].args[9] = inputShape[2]
       /\ seqentialBlock[1].args[10] = inputShape[3]
       /\ inputWidth = TrueSize(seqentialBlock, inputShape[2], 1)
       /\ inputHeight = TrueSize(seqentialBlock, inputShape[3], 2)

-----------------------------------------------------------------------------
(* Properties of MakeLayer and BasicBlock, under SpecMakeLayer. *)

ExpansionOf(block) == IF block = "bottleneck" THEN 4 ELSE 1

(* C6: the downsample decision for the first block of a stage is true
   exactly when the stride is not 1 or the incoming channel count differs
   from outSize * expansion. *)
C6_DownsampleDecision ==
  (ml # NoFrame /\ pc # "MakeLayer") =>
    (ml.downSample <=>
       (ml.stride # 1 \/ inputShape[1] # ml.outSize * ExpansionOf(ml.block)))

(* C7: MakeLayer appends exactly numBlocks blocks; every block after the
   first has an identity shortcut and is given outSize * expansion input
   channels. *)
C7_StageBlocks ==
  (ml # NoFrame /\ pc = "done") =>
    /\ Len(resNet) = ml.numBlocks
    /\ \A j \in 2 .. Len(resNet) :
         LET merge == resNet[j].sub[1].sub
         IN  /\ Len(merge) = 2
             /\ merge[2] = IdentityLayer
             /\ merge[1].sub[1].args[1] = ml.outSize * ExpansionOf(ml.block)

(* C9: in a block with a downsample shortcut the projection convolution is
   constructed with the width and height the main path's first convolution
   was constructed with, and at the merge the shortcut's output shape equals
   the main path's output shape. *)
C9_ShortcutSharesInput ==
  (pc = "BasicBlockFinish" /\ bb.downSample) =>
    LET main == resBlock[1].sub
        proj == resBlock[2]
        w == main[1].args[9]
        h == main[1].args[10]
    IN  /\ proj.type = "Convolution"
        /\ proj.args[9] = w
        /\ proj.args[10] = h
        /\ proj.args[2] = main[Len(main) - 1].args[2]
        /\ TrueSize(<<proj>>, w, 1) = TrueSize(main, w, 1)
        /\ TrueSize(<<proj>>, h, 2) = TrueSize(main, h, 2)

(* C10: every block appended is the additive merge of a main path and a
   shortcut followed by one activation; for Basic the main path is
   [3x3 conv(in->out), normalization, activation, 3x3 conv(out->out),
   normalization], and the shortcut is a downsample projection (1x1
   convolution in->out, normalization) when the flag is set and an identity
   otherwise. *)
C10_BlockStructure ==
  (pc = "MakeLayerLoop" /\ bb # NoFrame /\ bb.fn = "BasicBlock") =>
    LET block == resNet[Len(resNet)]
        merge == block.sub[1].sub
        main == merge[1].sub
    IN  /\ block.type = "Sequential"
        /\ Len(block.sub) = 2
        /\ block.sub[1].type = "AddMerge"
        /\ block.sub[2] = ReLULayer
        /\ Len(merge) = 2
        /\ merge[1].type = "Sequential"
        /\ [n \in 1 .. Len(main) |-> main[n].type] =
             <<"Convolution", "BatchNorm", "ReLULayer", "Convolution", "BatchNorm">>
        /\ SubSeq(main[1].args, 1, 4) = <<bb.inSize, bb.outSize, 3, 3>>
        /\ SubSeq(main[4].args, 1, 4) = <<bb.outSize, bb.outSize, 3, 3>>
        /\ main[2] = BatchNorm(bb.outSize)
        /\ main[5] = BatchNorm(bb.outSize)
        /\ IF bb.downSample
             THEN /\ merge[2].type = "Sequential"
                  /\ Len(merge[2].sub) = 2
                  /\ merge[2].sub[1].type = "Convolution"
                  /\ SubSeq(merge[2].sub[1].args, 1, 4) =
                       <<bb.inSize, bb.outSize, 1, 1>>
                  /\ merge[2].sub[2] = BatchNorm(bb.outSize)
             ELSE merge[2] = IdentityLayer

====
